---------------------------- MODULE Spec2Model ----------------------------
(***************************************************************************)
(* Model of msticpy/data/remap_columns.py: the declarative filter / remap  *)
(* engine (valid_config, __df_filter, df_filter, map_fields,               *)
(* prepare_object).                                                        *)
(*                                                                         *)
(* Python objects are modelled by what the code can observe of them:       *)
(*   - a scalar is a record [t, n, s]: t is the Python type name, n the    *)
(*     number (ints and bools as themselves, floats in halves), s the      *)
(*     text of a str;                                                      *)
(*   - a config value (condition spec, mapping target) is a record         *)
(*     [k, v, l]: k is "scalar", "list" or "dict", v the scalar, l the     *)
(*     list's entries;                                                     *)
(*   - a DataFrame is a record [cols, rows]: the column labels in order    *)
(*     (labels may repeat after a rename) and the rows, each a sequence    *)
(*     of cells aligned with cols.  The row index is not modelled: none of *)
(*     the functions reads it.                                             *)
(*   - the outcome of a call is a record [kind, frame, bool, exc]: a       *)
(*     returned frame, a returned bool, or a raised exception.             *)
(***************************************************************************)
EXTENDS Integers, Sequences, FiniteSets, TLC

VARIABLES
    call,          \* the function under call
    df,            \* the caller's table (argument df)
    config,        \* the caller's config (prepare_object, valid_config);
                   \* config.conditions is df_filter's argument
    pc,            \* position of the call
    filtered,      \* prepare_object's local variable `filtered`
    chained,       \* the value passed along the method chain of line 87
    steps,         \* history: the pipeline steps the call has performed
    ret,           \* what the call returned or raised
    arg_save_original, \* the argument save_original of map_fields
                   \* (default False)
    prev,          \* history: what the previous call on the same objects
                   \* returned or raised
    \* the drivers (msticpy/data/drivers)
    driver,        \* the driver class in use
    settings,      \* the parameters _get_config_settings() returns
    connect_defaults, \* the class attribute _CONNECT_DEFAULTS (one dict,
                   \* shared by the instances), its connection parameters
    connected,     \* self._connected of each driver object
    logger,        \* self.logger of each driver object
    service,       \* self.service of each driver object
    succeeded,     \* history: a connect call on the object completed
    outcome,       \* the last call on a driver and how it ended
    ncalls,        \* history: the number of connect calls made
    \* query_with_results(recursive=True) of MPSIEMEventsDriver
    stored,        \* the matching events the service holds
    limit,         \* the argument limit
    offset,        \* the argument offset
    current_offset, \* local variable
    something_left, \* local variable
    events,        \* local variable
    requests       \* history: the offsets requested from the service

remapVars == <<call, df, config, pc, filtered, chained, steps, ret,
               arg_save_original, prev>>

driverVars == <<driver, settings, connect_defaults, connected, logger, service,
                succeeded, outcome, ncalls>>

pagingVars == <<stored, limit, offset, current_offset, something_left, events,
                requests>>

vars == <<call, df, config, pc, filtered, chained, steps, ret,
          arg_save_original, prev, driver, settings, connect_defaults,
          connected, logger, service, succeeded, outcome, ncalls, stored,
          limit, offset, current_offset, something_left, events, requests>>

(***************************************************************************)
(* Bounds                                                                  *)
(***************************************************************************)
\* rows of an input table
MaxRows == 2

\* column/spec items of one Condition
MaxPairs == 2

\* Conditions in a list of Conditions
MaxClauses == 2

\* items of a mapping handed to valid_config
MaxEntries == 2

(***************************************************************************)
(* Python scalars                                                          *)
(***************************************************************************)
IntV(i) == [t |-> "int", n |-> i, s |-> ""]

StrV(x) == [t |-> "str", n |-> 0, s |-> x]

\* a float, given in halves: FloatV(3) is 1.5, FloatV(2) is 1.0
FloatV(h) == [t |-> "float", n |-> h, s |-> ""]

BoolV(b) == [t |-> "bool", n |-> IF b THEN 1 ELSE 0, s |-> ""]

None == [t |-> "NoneType", n |-> 0, s |-> ""]

\* float('nan'), what pandas stores for a missing cell
NaN == [t |-> "float", n |-> 0, s |-> "nan"]

\* type(value).__name__
TypeOf(v) == v.t

IsNumber(v) == v.t \in {"int", "float", "bool"} /\ v.s = ""

\* the number in halves, so that ints, bools and floats compare by value
Halves(v) == IF v.t = "float" THEN v.n ELSE 2 * v.n

\* a null test that knows None only and takes NaN for a value
isna_none_only(v) == v = None

\* pandas isna() of one cell: None and NaN
isna(v) == v = None \/ v = NaN

\* one element of `column == value`: Python equality, False on a null cell
PyEq(cell, value) ==
    IF isna(cell) \/ isna(value) THEN FALSE
    ELSE IF IsNumber(cell) /\ IsNumber(value) THEN Halves(cell) = Halves(value)
    ELSE IF cell.t = "str" /\ value.t = "str" THEN cell.s = value.s
    ELSE FALSE

Digit(d) == <<"0", "1", "2", "3", "4", "5", "6", "7", "8", "9">>[d + 1]

RECURSIVE NatToStr(_)
NatToStr(i) == IF i < 10 THEN Digit(i) ELSE NatToStr(i \div 10) \o Digit(i % 10)

IntToStr(i) == IF i < 0 THEN "-" \o NatToStr(-i) ELSE NatToStr(i)

\* str(value)
PyStr(v) ==
    CASE v.t = "str" -> v.s
      [] v.t = "int" -> IntToStr(v.n)
      [] v.t = "bool" -> IF v.n = 1 THEN "True" ELSE "False"
      [] v.t = "NoneType" -> "None"
      [] v.t = "float" ->
            IF v.s = "nan" THEN "nan"
            ELSE IntToStr(v.n \div 2) \o (IF v.n % 2 = 0 THEN ".0" ELSE ".5")

(***************************************************************************)
(* Config values: scalar, list of scalars, or another shape (a dict)       *)
(***************************************************************************)
Scalar(v) == [k |-> "scalar", v |-> v, l |-> <<>>]

List(l) == [k |-> "list", v |-> None, l |-> l]

Dict == [k |-> "dict", v |-> None, l |-> <<>>]

\* type(obj).__name__ of a config value
ObjType(o) == IF o.k = "scalar" THEN TypeOf(o.v) ELSE o.k

(***************************************************************************)
(* DataFrames                                                              *)
(***************************************************************************)
\* pd.DataFrame()
EmptyFrame == [cols |-> <<>>, rows |-> <<>>]

\* DataFrame.empty
IsEmpty(f) == Len(f.cols) = 0 \/ Len(f.rows) = 0

\* label in frame.columns
HasColumn(f, label) == \E i \in 1..Len(f.cols) : f.cols[i] = label

\* positions of the columns with this label
Locs(f, label) == {i \in 1..Len(f.cols) : f.cols[i] = label}

\* position of the first column with this label
Loc(f, label) == CHOOSE i \in Locs(f, label) : \A j \in Locs(f, label) : i <= j

\* frame[mask]: the rows whose mask element is true, in their order
Mask(f, mask) ==
    [cols |-> f.cols,
     rows |-> LET keep == SelectSeq([i \in 1..Len(f.rows) |-> i],
                                    LAMBDA i : mask[i])
              IN  [j \in 1..Len(keep) |-> f.rows[keep[j]]]]

\* frame[label]: the column's cells, row by row
Column(f, label) == [i \in 1..Len(f.rows) |-> f.rows[i][Loc(f, label)]]

\* the labels of g that f does not have, in g's order
NewCols(f, g) == SelectSeq(g.cols, LAMBDA c : ~HasColumn(f, c))

\* a row of f laid out on the columns `cols`, NaN where f has no such column
Realign(f, row, cols) ==
    [i \in 1..Len(cols) |->
        IF HasColumn(f, cols[i]) THEN row[Loc(f, cols[i])] ELSE NaN]

\* DataFrame.append(other, ignore_index=True): the rows of both on the union
\* of the columns
append(f, other) ==
    LET cols == f.cols \o NewCols(f, other)
    IN  [cols |-> cols,
         rows |-> [i \in 1..Len(f.rows) |-> Realign(f, f.rows[i], cols)]
                  \o [i \in 1..Len(other.rows) |->
                        Realign(other, other.rows[i], cols)]]

(***************************************************************************)
(* Call outcomes                                                           *)
(***************************************************************************)
NoRet == [kind |-> "none", frame |-> EmptyFrame, bool |-> FALSE, exc |-> ""]

RetFrame(f) == [kind |-> "frame", frame |-> f, bool |-> FALSE, exc |-> ""]

RetBool(b) == [kind |-> "bool", frame |-> EmptyFrame, bool |-> b, exc |-> ""]

Raise(e) == [kind |-> "raise", frame |-> EmptyFrame, bool |-> FALSE, exc |-> e]

\* an exception raised by a function that works on a frame in place: `frame`
\* is the state in which the exception leaves that frame
RaiseIn(e, f) == [kind |-> "raise", frame |-> f, bool |-> FALSE, exc |-> e]

(***************************************************************************)
(* Configs.  A config is a Python dict: `keys` are the keys it holds among *)
(* conditions, mapping and extensions.                                     *)
(*   conditions: [k, s, d, l]: k = "str" (the text s), "dict" (one         *)
(*     Condition d), "list" (the Conditions l) or "int";                   *)
(*     a Condition is the sequence of its <<column, spec>> items in        *)
(*     insertion order, the columns distinct;                              *)
(*   mapping: [k, d, s, l]: k = "dict" (the items d, each [key, target],   *)
(*     the keys distinct), "NoneType", "int", "str" (its characters s) or  *)
(*     "list" (its elements l);                                            *)
(*   extensions: the sequence of its [key, value] items.                   *)
(***************************************************************************)
CondStr(x) == [k |-> "str", s |-> x, d |-> <<>>, l |-> <<>>]

CondDict(d) == [k |-> "dict", s |-> "", d |-> d, l |-> <<>>]

CondList(l) == [k |-> "list", s |-> "", d |-> <<>>, l |-> l]

CondInt == [k |-> "int", s |-> "", d |-> <<>>, l |-> <<>>]

MapDict(d) == [k |-> "dict", d |-> d, s |-> <<>>, l |-> <<>>]

MapNone == [k |-> "NoneType", d |-> <<>>, s |-> <<>>, l |-> <<>>]

MapInt == [k |-> "int", d |-> <<>>, s |-> <<>>, l |-> <<>>]

MapStr(chars) == [k |-> "str", d |-> <<>>, s |-> chars, l |-> <<>>]

MapList(l) == [k |-> "list", d |-> <<>>, s |-> <<>>, l |-> l]

(***************************************************************************)
(* valid_config                                                            *)
(***************************************************************************)
\* config['mapping'][e] for a list-valued mapping and the element e it holds:
\* the outcome of the loop body for that element ("ok": the loop goes on)
ListEntryCheck(l, e) ==
    IF e.t \notin {"int", "bool"} THEN "TypeError"
    ELSE IF e.n >= Len(l) \/ e.n < -Len(l) THEN "IndexError"
    ELSE LET x == l[(IF e.n < 0 THEN e.n + Len(l) ELSE e.n) + 1]
         IN  IF TypeOf(x) \notin {"str", "list"} THEN "False" ELSE "ok"

\* the loop over config['mapping'] from its i-th entry on
RECURSIVE valid_mapping(_, _)
valid_mapping(m, i) ==
    CASE m.k \in {"NoneType", "int"} -> Raise("TypeError")
      [] m.k = "str" ->
            \* a str is iterable; indexing it by a character is a TypeError
            IF Len(m.s) = 0 THEN RetBool(TRUE) ELSE Raise("TypeError")
      [] m.k = "list" ->
            IF i > Len(m.l) THEN RetBool(TRUE)
            ELSE LET c == ListEntryCheck(m.l, m.l[i])
                 IN  IF c = "ok" THEN valid_mapping(m, i + 1)
                     ELSE IF c = "False" THEN RetBool(FALSE)
                     ELSE Raise(c)
      [] m.k = "dict" ->
            IF i > Len(m.d) THEN RetBool(TRUE)
            ELSE IF ObjType(m.d[i].target) \notin {"str", "list"}
                 THEN RetBool(FALSE)
                 ELSE valid_mapping(m, i + 1)

valid_config(c) ==
    IF "conditions" \notin c.keys THEN RetBool(FALSE)
    ELSE IF "mapping" \notin c.keys THEN RetBool(FALSE)
    ELSE valid_mapping(c.mapping, 1)

(***************************************************************************)
(* __df_filter and df_filter                                               *)
(***************************************************************************)
\* the inner loop of a list-valued condition, from the i-th list entry on
RECURSIVE df_filter_list(_, _, _, _, _)
df_filter_list(tmp, current_cond_result, condition, value, i) ==
    IF i > Len(value) THEN tmp
    ELSE LET value_filter ==
                 [r \in 1..Len(current_cond_result.rows) |->
                     PyEq(Column(current_cond_result, condition)[r], value[i])]
         IN  df_filter_list(append(tmp, Mask(current_cond_result, value_filter)),
                            current_cond_result, condition, value, i + 1)

\* the loop of __df_filter over the Condition's items, from the i-th on
RECURSIVE df_filter_loop(_, _, _)
df_filter_loop(current_cond_result, conditions, i) ==
    IF i > Len(conditions) THEN RetFrame(current_cond_result)
    ELSE
    LET condition == conditions[i][1]
        value == conditions[i][2]
        col == Column(current_cond_result, condition)
        rows == 1..Len(current_cond_result.rows)
    IN  IF ~HasColumn(current_cond_result, condition) THEN RetFrame(EmptyFrame)
        ELSE IF ObjType(value) \in {"str", "int", "NoneType"} THEN
            IF value.v = StrV("not null") THEN
                df_filter_loop(
                    Mask(current_cond_result, [r \in rows |-> ~isna(col[r])]),
                    conditions, i + 1)
            ELSE IF value.v = None THEN
                df_filter_loop(
                    Mask(current_cond_result, [r \in rows |-> isna(col[r])]),
                    conditions, i + 1)
            ELSE
                df_filter_loop(
                    Mask(current_cond_result,
                         [r \in rows |-> PyEq(col[r], value.v)]),
                    conditions, i + 1)
        ELSE IF ObjType(value) = "list" THEN
            df_filter_loop(
                df_filter_list(EmptyFrame, current_cond_result, condition,
                               value.l, 1),
                conditions, i + 1)
        ELSE Raise("Exception")

\* __df_filter(result, conditions)
df_filter_one(result, conditions) == df_filter_loop(result, conditions, 1)

\* the loop of df_filter over a list of Conditions, from the i-th on
RECURSIVE df_filter_clauses(_, _, _, _)
df_filter_clauses(current_cond_result, result, conditions, i) ==
    IF i > Len(conditions) THEN RetFrame(current_cond_result)
    ELSE LET r == df_filter_one(result, conditions[i])
         IN  IF r.kind = "raise" THEN r
             ELSE df_filter_clauses(append(current_cond_result, r.frame),
                                    result, conditions, i + 1)

\* df_filter without its wildcard branch (lines 48-49)
df_filter_no_wildcard(frame, conditions) ==
    IF conditions.k = "dict" THEN df_filter_one(frame, conditions.d)
    ELSE IF conditions.k = "list"
         THEN df_filter_clauses(EmptyFrame, frame, conditions.l, 1)
    ELSE RetFrame(EmptyFrame)

df_filter(frame, conditions) ==
    IF conditions.k = "str" /\ conditions.s = "*" THEN RetFrame(frame)
    ELSE IF conditions.k = "dict" THEN df_filter_one(frame, conditions.d)
    ELSE IF conditions.k = "list"
         THEN df_filter_clauses(EmptyFrame, frame, conditions.l, 1)
    ELSE RetFrame(EmptyFrame)

(***************************************************************************)
(* map_fields                                                              *)
(***************************************************************************)
\* frame[label] = column: every column of that label is overwritten in
\* place; a new label is appended as the last column
setitem(f, label, column) ==
    IF HasColumn(f, label)
    THEN [cols |-> f.cols,
          rows |-> [r \in 1..Len(f.rows) |->
                      [c \in 1..Len(f.cols) |->
                          IF f.cols[c] = label THEN column[r]
                          ELSE f.rows[r][c]]]]
    ELSE [cols |-> Append(f.cols, label),
          rows |-> [r \in 1..Len(f.rows) |-> Append(f.rows[r], column[r])]]

\* the n-th (1-based) position among the columns labelled `label`
NthLoc(f, label, n) ==
    CHOOSE i \in Locs(f, label) :
        Cardinality({j \in Locs(f, label) : j <= i}) = n

\* frame[value] = frame[key], the statement of lines 64 and 73.  frame[key]
\* is one column when the label is unique; it is a DataFrame when a rename
\* left several columns of that label, which can only be assigned to as
\* many columns of the target label.
copy_column(f, value, key) ==
    LET k == Cardinality(Locs(f, key))
    IN  IF k = 0 THEN Raise("KeyError")
        ELSE IF k = 1 THEN RetFrame(setitem(f, value, Column(f, key)))
        ELSE IF Cardinality(Locs(f, value)) # k THEN Raise("ValueError")
        ELSE RetFrame(
            [cols |-> f.cols,
             rows |-> [r \in 1..Len(f.rows) |->
                 [c \in 1..Len(f.cols) |->
                     IF f.cols[c] = value
                     THEN f.rows[r][NthLoc(f, key,
                             Cardinality({j \in Locs(f, value) : j <= c}))]
                     ELSE f.rows[r][c]]]])

\* del frame[key]: every column of that label goes
delitem(f, key) ==
    LET keep == SelectSeq([i \in 1..Len(f.cols) |-> i],
                          LAMBDA i : f.cols[i] # key)
    IN  [cols |-> [j \in 1..Len(keep) |-> f.cols[keep[j]]],
         rows |-> [r \in 1..Len(f.rows) |->
                     [j \in 1..Len(keep) |-> f.rows[r][keep[j]]]]]

\* the items of the mapping whose value is not a list / is a list
simple_mapping(mapping) ==
    SelectSeq(mapping, LAMBDA e : ObjType(e.target) # "list")

multivalue_mapping(mapping) ==
    SelectSeq(mapping, LAMBDA e : ObjType(e.target) = "list")

\* DataFrame.rename(columns=simple, inplace=True): every label that is a key
\* of the mapping is replaced by its value, all labels at once
rename(f, simple) ==
    [cols |-> [c \in 1..Len(f.cols) |->
                  IF \E i \in 1..Len(simple) : simple[i].key = f.cols[c]
                  THEN simple[CHOOSE i \in 1..Len(simple) :
                                  simple[i].key = f.cols[c]].target.v
                  ELSE f.cols[c]],
     rows |-> f.rows]

\* the save_original loop of lines 62-64, from the i-th simple item on
RECURSIVE copy_loop(_, _, _)
copy_loop(f, simple, i) ==
    IF i > Len(simple) THEN RetFrame(f)
    ELSE LET r == copy_column(f, simple[i].target.v, simple[i].key)
         IN  IF r.kind = "raise" THEN RaiseIn(r.exc, f)
             ELSE copy_loop(r.frame, simple, i + 1)

\* the loop of lines 72-73 over one fan-out list, from its j-th name on
RECURSIVE fanout_values(_, _, _, _)
fanout_values(f, key, values, j) ==
    IF j > Len(values) THEN RetFrame(f)
    ELSE LET r == copy_column(f, values[j], key)
         IN  IF r.kind = "raise" THEN RaiseIn(r.exc, f)
             ELSE fanout_values(r.frame, key, values, j + 1)

\* the loop of lines 68-75 over the fan-out items, from the i-th on
RECURSIVE fanout_loop(_, _, _, _)
fanout_loop(f, multi, i, save_original) ==
    IF i > Len(multi) THEN RetFrame(f)
    ELSE IF ~HasColumn(f, multi[i].key)
         THEN fanout_loop(f, multi, i + 1, save_original)
    ELSE LET r == fanout_values(f, multi[i].key, multi[i].target.l, 1)
         IN  IF r.kind = "raise" THEN r
             ELSE fanout_loop(
                    IF save_original THEN r.frame
                    ELSE delitem(r.frame, multi[i].key),
                    multi, i + 1, save_original)

\* the items applied in one pass, fan-outs before renames and copies
map_fields_fanout_first(f, mapping, save_original) ==
    IF mapping.k # "dict" THEN RaiseIn("AttributeError", f)
    ELSE LET fanned == fanout_loop(f, multivalue_mapping(mapping.d), 1,
                                   save_original)
         IN  IF fanned.kind = "raise" THEN fanned
             ELSE IF save_original
                  THEN copy_loop(fanned.frame, simple_mapping(mapping.d), 1)
                  ELSE RetFrame(rename(fanned.frame, simple_mapping(mapping.d)))

map_fields(f, mapping, save_original) ==
    IF mapping.k # "dict" THEN RaiseIn("AttributeError", f)   \* no .items()
    ELSE LET renamed ==
                 IF save_original
                 THEN copy_loop(f, simple_mapping(mapping.d), 1)
                 ELSE RetFrame(rename(f, simple_mapping(mapping.d)))
         IN  IF renamed.kind = "raise" THEN renamed
             ELSE fanout_loop(renamed.frame, multivalue_mapping(mapping.d), 1,
                              save_original)

(***************************************************************************)
(* The steps of prepare_object                                             *)
(***************************************************************************)
\* prepare_object without its extension loop
add_extensions_none(f, extensions, i) == f

\* the loop of lines 85-86: filtered[key] = config['extensions'][key]
RECURSIVE add_extensions(_, _, _)
add_extensions(f, extensions, i) ==
    IF i > Len(extensions) THEN f
    ELSE add_extensions(
            setitem(f, extensions[i].key,
                    [r \in 1..Len(f.rows) |-> extensions[i].value]),
            extensions, i + 1)

\* the cells left as they are
applymap_identity(f) == f

\* DataFrame.applymap(str)
applymap_str(f) ==
    [cols |-> f.cols,
     rows |-> [r \in 1..Len(f.rows) |->
                 [c \in 1..Len(f.cols) |-> StrV(PyStr(f.rows[r][c]))]]]

\* every row kept
drop_duplicates_none(f) == f

\* DataFrame.drop_duplicates(): of equal rows the first stays
drop_duplicates(f) ==
    LET keep == SelectSeq([i \in 1..Len(f.rows) |-> i],
                          LAMBDA i : \A j \in 1..(i - 1) : f.rows[j] # f.rows[i])
    IN  [cols |-> f.cols, rows |-> [j \in 1..Len(keep) |-> f.rows[keep[j]]]]

(***************************************************************************)
(* Inputs                                                                  *)
(***************************************************************************)
col_a == StrV("a")

col_b == StrV("b")

\* a column no input table has
col_zz == StrV("zz")

\* the rows input tables are made of, on the columns a, b
RowPool ==
    { <<IntV(1), StrV("x")>>, <<StrV("1"), StrV("x")>>, <<IntV(1), StrV("y")>>,
      <<None, StrV("x")>>, <<NaN, StrV("y")>>, <<BoolV(TRUE), StrV("x")>>,
      <<FloatV(3), StrV("y")>> }

SeqsUpTo(S, n) == UNION {[1..m -> S] : m \in 0..n}

Tables == {[cols |-> <<col_a, col_b>>, rows |-> rs] : rs \in SeqsUpTo(RowPool, MaxRows)}

\* the specs a Condition may give for a column
SpecsFor(c) ==
    CASE c = col_a ->
            { Scalar(StrV("not null")), Scalar(None), Scalar(IntV(1)),
              Scalar(StrV("1")), Scalar(FloatV(3)), Scalar(BoolV(TRUE)),
              List(<<IntV(1), IntV(1)>>), List(<<IntV(1), StrV("1")>>), Dict }
      [] c = col_b ->
            { Scalar(StrV("x")), List(<<StrV("x"), StrV("y")>>), List(<<>>), Dict }
      [] c = col_zz -> { Scalar(IntV(1)) }

CondItems == UNION {{<<c, sp>> : sp \in SpecsFor(c)} : c \in {col_a, col_b, col_zz}}

\* a dict has each key once
Conditions ==
    {c \in SeqsUpTo(CondItems, MaxPairs) :
        \A i, j \in 1..Len(c) : i # j => c[i][1] # c[j][1]}

\* the Conditions lists of Conditions are made of
ClausePool ==
    { <<<<col_a, Scalar(IntV(1))>>>>, <<<<col_a, Scalar(StrV("not null"))>>>>,
      <<<<col_b, Scalar(StrV("x"))>>>>, <<<<col_zz, Scalar(IntV(1))>>>>,
      <<<<col_a, Dict>>>> }

ConditionSets ==
    {CondStr("*"), CondStr("all"), CondInt}
    \cup {CondDict(c) : c \in Conditions}
    \cup {CondList(l) : l \in SeqsUpTo(ClausePool, MaxClauses)}

\* a config that holds nothing but conditions: df_filter's argument
OnlyConditions(cs) ==
    [keys |-> {"conditions"}, conditions |-> cs, mapping |-> MapNone,
     extensions |-> <<>>]

\* mapping values handed to valid_config
TargetPool ==
    { Scalar(StrV("A")), List(<<StrV("A"), StrV("B")>>), List(<<IntV(1)>>),
      List(<<>>), Scalar(IntV(5)), Scalar(None), Dict }

EntryPool == {[key |-> c, target |-> t] : c \in {col_a, col_b, col_zz}, t \in TargetPool}

DictMappings ==
    {MapDict(d) : d \in {m \in SeqsUpTo(EntryPool, MaxEntries) :
        \A i, j \in 1..Len(m) : i # j => m[i].key # m[j].key}}

\* a mapping key that holds no key/value mapping at all
OtherMappings ==
    { MapNone, MapInt, MapStr(<<>>), MapStr(<<"a", "b">>), MapList(<<>>),
      MapList(<<IntV(0)>>), MapList(<<StrV("a")>>), MapList(<<IntV(1)>>),
      MapList(<<IntV(1), StrV("a")>>) }

ValidConfigInputs ==
    {[keys |-> ks, conditions |-> CondStr("*"), mapping |-> m, extensions |-> <<>>] :
        ks \in {ks \in SUBSET {"conditions", "mapping", "extensions"} :
                    "mapping" \in ks},
        m \in DictMappings \cup OtherMappings}
    \cup
    {[keys |-> ks, conditions |-> CondStr("*"), mapping |-> MapNone,
      extensions |-> <<>>] : ks \in SUBSET {"conditions", "extensions"}}

(***************************************************************************)
(* The drivers: MPSIEMDriver, MPSIEMEventsDriver, MPSIEMIncidentsDriver,   *)
(* PTNADDriver.  A connection parameter's value is a record [from, n]: who *)
(* supplied it ("settings": the configuration; "call": the n-th connect    *)
(* call) or "absent" when the dict has no such key.                        *)
(***************************************************************************)
Drivers ==
    {"MPSIEMDriver", "MPSIEMEventsDriver", "MPSIEMIncidentsDriver",
     "PTNADDriver"}

\* the two classes whose __init__ sets self.logger = None
LoggerSetByConnect == {"MPSIEMEventsDriver", "MPSIEMIncidentsDriver"}

\* two driver objects of the class
Instances == {"d1", "d2"}

\* _MPSIEM_REQD_ARGS, _PTNAD_REQD_ARGS
REQD_ARGS == {"host", "username", "password"}

Absent == [from |-> "absent", n |-> 0]

FromSettings == [from |-> "settings", n |-> 0]

FromCall(n) == [from |-> "call", n |-> n]

\* _CONNECT_DEFAULTS as the class statement leaves it: http_scheme and verify
\* only, none of the required parameters
CONNECT_DEFAULTS == [p \in REQD_ARGS |-> Absent]

\* dict.update with the parameters `keys`, each of value v
update(d, keys, v) == [p \in REQD_ARGS |-> IF p \in keys THEN v ELSE d[p]]

\* a call on a driver object and how it ended: result is "ok" or the name of
\* the exception that left the call ("running" while the call is in its
\* paging loop); called: the call made a request to the service; used: the
\* connection parameters connect got back from _get_connect_args and built
\* the credentials from (all absent when it got none back)
Ended(op, i, result, called, used) ==
    [op |-> op, inst |-> i, result |-> result, called |-> called,
     used |-> used]

\* no call on a driver yet
NoCall == Ended("none", "", "", FALSE, CONNECT_DEFAULTS)

\* the driver variables while the remapping functions are under call
NoDriver ==
    /\ driver = "none"
    /\ settings = {}
    /\ connect_defaults = CONNECT_DEFAULTS
    /\ connected = [i \in Instances |-> FALSE]
    /\ logger = [i \in Instances |-> "None"]
    /\ service = [i \in Instances |-> "None"]
    /\ succeeded = [i \in Instances |-> FALSE]
    /\ outcome = NoCall
    /\ ncalls = 0

NoPaging ==
    /\ stored = 0
    /\ limit = 0
    /\ offset = 0
    /\ current_offset = 0
    /\ something_left = FALSE
    /\ events = <<>>
    /\ requests = <<>>

\* the remapping variables while a driver is under call
NoRemap ==
    /\ call = "driver"
    /\ df = EmptyFrame
    /\ config = OnlyConditions(CondInt)
    /\ pc = "idle"
    /\ filtered = EmptyFrame
    /\ chained = EmptyFrame
    /\ steps = <<>>
    /\ ret = NoRet
    /\ arg_save_original = FALSE
    /\ prev = NoRet

\* __init__ of two objects of one driver class: _connected False, service
\* None; logger None in the events and incidents drivers, the class's logger
\* in the other two
InitDriver ==
    /\ NoRemap
    /\ NoPaging
    /\ driver \in Drivers
    /\ settings \in SUBSET REQD_ARGS
    /\ connect_defaults = CONNECT_DEFAULTS
    /\ connected = [i \in Instances |-> FALSE]
    /\ logger = [i \in Instances |->
                    IF driver \in LoggerSetByConnect THEN "None" ELSE "Logger"]
    /\ service = [i \in Instances |-> "None"]
    /\ succeeded = [i \in Instances |-> FALSE]
    /\ outcome = NoCall
    /\ ncalls = 0

\* how a connection string or keyword arguments reach _get_connect_args
ConnectModes == {"none", "connection_str", "malformed_str", "kwargs"}

\* where a callee of connect raises: nowhere; in check_kwargs; in the try
\* block while the credentials and the authentication object are built; in
\* the try block in the last call (the API object, connect, check_status)
Failures == {"none", "check_kwargs", "auth", "api"}

\* cs_dict when _get_connect_args has merged its sources: cs_dict is
\* self._CONNECT_DEFAULTS itself, updated in place with the settings and then
\* with the connection string or the keyword arguments.  A connection string
\* with an item that has no "=" raises before its update is applied.
merged(mode, supplied) ==
    LET with_settings == update(connect_defaults, settings, FromSettings)
    IN  IF mode \in {"connection_str", "kwargs"}
        THEN update(with_settings, supplied, FromCall(ncalls + 1))
        ELSE with_settings

\* missing_args of _get_connect_args
missing_args(mode, supplied) ==
    {p \in REQD_ARGS : merged(mode, supplied)[p] = Absent}

\* how _get_connect_args ends: "ok" when it returns cs_dict.  The message
\* about missing parameters goes to self.logger before the error is raised.
get_connect_args(i, mode, supplied, fail) ==
    IF mode = "malformed_str" THEN "IndexError"
    ELSE IF mode = "kwargs" /\ fail = "check_kwargs" THEN "NameError"
    ELSE IF missing_args(mode, supplied) # {}
         THEN IF logger[i] = "None" THEN "AttributeError"
              ELSE "MsticpyUserConfigError"
    ELSE "ok"

\* how connect's try block and its handler end: the handler logs to
\* self.logger and raises MsticpyConnectionError
connect_try(i, fail) ==
    IF fail = "auth"
    THEN IF logger[i] = "None" THEN "AttributeError"
         ELSE "MsticpyConnectionError"
    ELSE IF fail = "api" THEN "MsticpyConnectionError"
    ELSE "ok"

\* how connect ends
connect_result(i, mode, supplied, fail) ==
    IF get_connect_args(i, mode, supplied, fail) # "ok"
    THEN get_connect_args(i, mode, supplied, fail)
    ELSE connect_try(i, fail)

\* the calls made on the drivers are bounded
MaxCalls == 2

\* the inputs of a connect call
ConnectInput(mode, supplied, fail) ==
    /\ mode \in {"none", "malformed_str"} => supplied = {}
    /\ fail = "check_kwargs" => mode = "kwargs"


(***************************************************************************)
(* valid_config(config)                                                    *)
(***************************************************************************)
InitValidConfig ==
    /\ call = "valid_config"
    /\ df = EmptyFrame
    /\ config \in ValidConfigInputs
    /\ pc = "start"
    /\ filtered = EmptyFrame
    /\ chained = EmptyFrame
    /\ steps = <<>>
    /\ ret = NoRet
    /\ arg_save_original = FALSE
    /\ prev = NoRet
    /\ NoDriver
    /\ NoPaging

ValidConfig ==
    /\ call = "valid_config"
    /\ pc = "start"
    /\ ret' = valid_config(config)
    /\ pc' = "done"
    /\ UNCHANGED <<driverVars, pagingVars, arg_save_original, prev, call, df, config, filtered, chained, steps>>

SpecValidConfig == InitValidConfig /\ [][ValidConfig]_vars

(***************************************************************************)
(* df_filter(df, conditions)                                               *)
(***************************************************************************)
InitFilter ==
    /\ call = "df_filter"
    /\ df \in Tables
    /\ config \in {OnlyConditions(cs) : cs \in ConditionSets}
    /\ pc = "start"
    /\ filtered = EmptyFrame
    /\ chained = EmptyFrame
    /\ steps = <<>>
    /\ ret = NoRet
    /\ arg_save_original = FALSE
    /\ prev = NoRet
    /\ NoDriver
    /\ NoPaging

\* df_filter works on df.copy(): the caller's df stays as it is
DfFilter ==
    /\ call = "df_filter"
    /\ pc = "start"
    /\ ret' = df_filter(df, config.conditions)
    /\ pc' = "done"
    /\ UNCHANGED <<driverVars, pagingVars, arg_save_original, prev, call, df, config, filtered, chained, steps>>

SpecFilter == InitFilter /\ [][DfFilter]_vars

(***************************************************************************)
(* prepare_object(df, config), statement by statement                      *)
(***************************************************************************)
\* the rows prepare_object's input tables are made of, on the columns a, b
PrepareRowPool ==
    { <<IntV(1), StrV("x")>>, <<StrV("1"), StrV("x")>>, <<None, StrV("y")>>,
      <<IntV(1), StrV("y")>> }

PrepareTables ==
    {[cols |-> <<col_a, col_b>>, rows |-> rs] :
        rs \in SeqsUpTo(PrepareRowPool, MaxRows)}

PrepareConditions ==
    { CondStr("*"), CondInt,
      CondDict(<<<<col_a, Scalar(IntV(1))>>>>),
      CondDict(<<<<col_b, Scalar(StrV("x"))>>>>),
      CondDict(<<<<col_zz, Scalar(IntV(1))>>>>),
      CondDict(<<<<col_a, Dict>>>>),
      CondList(<< <<<<col_a, Scalar(IntV(1))>>>>, <<<<col_a, Scalar(StrV("1"))>>>> >>),
      CondList(<< <<<<col_a, Scalar(IntV(1))>>>>, <<<<col_b, Scalar(StrV("x"))>>>> >>) }

Entry(key, target) == [key |-> StrV(key), target |-> target]

Name(x) == Scalar(StrV(x))

Names(l) == List([i \in 1..Len(l) |-> StrV(l[i])])

PrepareMappings ==
    { MapDict(<<>>),
      MapDict(<<Entry("a", Name("A"))>>),
      MapDict(<<Entry("a", Name("b"))>>),
      MapDict(<<Entry("a", Name("A")), Entry("b", Name("A"))>>),
      MapDict(<<Entry("b", Name("A")), Entry("a", Name("A"))>>),
      MapDict(<<Entry("a", Names(<<"A", "B">>))>>),
      MapDict(<<Entry("b", Names(<<"a">>))>>),
      MapDict(<<Entry("src", Name("S"))>>),
      MapDict(<<Entry("src", Names(<<"S1", "S2">>))>>),
      MapDict(<<Entry("zz", Name("Z")), Entry("a", Name("A"))>>),
      MapDict(<<Entry("zz", Names(<<"Q">>)), Entry("b", Name("B"))>>),
      MapDict(<<Entry("A", Names(<<"X", "Y">>)), Entry("a", Name("A"))>>),
      MapDict(<<Entry("a", Names(<<"X">>)), Entry("a2", Name("a"))>>),
      MapDict(<<Entry("a", Name("b")), Entry("b", Names(<<"c">>))>>),
      MapDict(<<Entry("a", List(<<IntV(1)>>))>>),
      MapDict(<<Entry("a", Scalar(IntV(5)))>>),
      MapDict(<<Entry("a", Name("A")), Entry("b", Scalar(None))>>),
      MapNone, MapInt, MapStr(<<>>), MapStr(<<"a">>), MapList(<<>>),
      MapList(<<IntV(0)>>) }

Extension(key, value) == [key |-> StrV(key), value |-> value]

PrepareExtensions ==
    { <<>>,
      <<Extension("src", StrV("x"))>>,
      <<Extension("a", StrV("x"))>>,
      <<Extension("src", IntV(1)), Extension("a2", None)>> }

PrepareConfigs ==
    {[keys |-> ks, conditions |-> cs, mapping |-> m, extensions |-> e] :
        ks \in {{"conditions", "mapping", "extensions"}},
        cs \in PrepareConditions, m \in PrepareMappings, e \in PrepareExtensions}
    \cup
    \* no extensions key
    {[keys |-> {"conditions", "mapping"}, conditions |-> cs, mapping |-> m,
      extensions |-> <<>>] :
        cs \in PrepareConditions, m \in PrepareMappings}
    \cup
    \* no mapping key
    {[keys |-> {"conditions", "extensions"}, conditions |-> cs,
      mapping |-> MapNone, extensions |-> e] :
        cs \in PrepareConditions, e \in PrepareExtensions}
    \cup
    \* no conditions key
    {[keys |-> {"mapping", "extensions"}, conditions |-> CondInt,
      mapping |-> m, extensions |-> e] :
        m \in PrepareMappings, e \in PrepareExtensions}

\* the end-to-end example of the specification
ExampleFrame ==
    [cols |-> <<StrV("id"), StrV("status")>>,
     rows |-> << <<IntV(1), StrV("active")>>, <<IntV(2), StrV("inactive")>> >>]

ExampleConfig ==
    [keys |-> {"conditions", "mapping", "extensions"},
     conditions |-> CondDict(<<<<StrV("status"), Scalar(StrV("active"))>>>>),
     mapping |-> MapDict(<<Entry("id", Name("ID")), Entry("status", Name("Status"))>>),
     extensions |-> <<Extension("source", StrV("x"))>>]

InitPrepare ==
    /\ call = "prepare_object"
    /\ \E input \in (PrepareTables \X PrepareConfigs)
                        \cup {<<ExampleFrame, ExampleConfig>>} :
            df = input[1] /\ config = input[2]
    /\ pc = "start"
    /\ filtered = EmptyFrame
    /\ chained = EmptyFrame
    /\ steps = <<>>
    /\ ret = NoRet
    /\ arg_save_original = FALSE
    /\ prev = NoRet
    /\ NoDriver
    /\ NoPaging

\* a config that lets everything through unvalidated
PrepareValidate_unchecked ==
    /\ call = "prepare_object"
    /\ pc = "start"
    /\ pc' = "filter"
    /\ UNCHANGED <<driverVars, pagingVars, arg_save_original, prev, call, df, config, filtered, chained, steps, ret>>

\* lines 80-81: if not valid_config(config): return pd.DataFrame()
PrepareValidate ==
    /\ call = "prepare_object"
    /\ pc = "start"
    /\ LET v == valid_config(config)
       IN  IF v.kind = "raise" THEN ret' = v /\ pc' = "done"
           ELSE IF ~v.bool THEN ret' = RetFrame(EmptyFrame) /\ pc' = "done"
           ELSE ret' = ret /\ pc' = "filter"
    /\ UNCHANGED <<driverVars, pagingVars, arg_save_original, prev, call, df, config, filtered, chained, steps>>

\* the filter step without the early return of lines 83-84
PrepareFilter_no_shortcut ==
    /\ call = "prepare_object"
    /\ pc = "filter"
    /\ LET r == df_filter(df, config.conditions)
       IN  IF r.kind = "raise"
           THEN ret' = r /\ pc' = "done" /\ UNCHANGED <<filtered, steps>>
           ELSE /\ filtered' = r.frame
                /\ steps' = Append(steps, "filter")
                /\ ret' = ret /\ pc' = "extend"
    /\ UNCHANGED <<driverVars, pagingVars, arg_save_original, prev, call, df, config, chained>>

\* lines 82-84: filtered = df_filter(...); if filtered.empty: return filtered
PrepareFilter ==
    /\ call = "prepare_object"
    /\ pc = "filter"
    /\ LET r == df_filter(df, config.conditions)
       IN  IF r.kind = "raise"
           THEN ret' = r /\ pc' = "done" /\ UNCHANGED <<filtered, steps>>
           ELSE /\ filtered' = r.frame
                /\ steps' = Append(steps, "filter")
                /\ IF IsEmpty(r.frame)
                   THEN ret' = RetFrame(r.frame) /\ pc' = "done"
                   ELSE ret' = ret /\ pc' = "extend"
    /\ UNCHANGED <<driverVars, pagingVars, arg_save_original, prev, call, df, config, chained>>

\* the extension loop at work on the caller's own table: what lines 85-86
\* would do had the filter handed df on instead of a copy of it
PrepareExtend_on_df ==
    /\ call = "prepare_object"
    /\ pc = "extend"
    /\ IF "extensions" \notin config.keys
       THEN ret' = Raise("KeyError") /\ pc' = "done"
            /\ UNCHANGED <<filtered, steps>>
       ELSE /\ filtered' = add_extensions(filtered, config.extensions, 1)
            /\ steps' = Append(steps, "extend")
            /\ ret' = ret /\ pc' = "map"
    /\ df' = filtered'
    /\ UNCHANGED <<driverVars, pagingVars, arg_save_original, prev, call, config, chained>>

\* a missing extensions key read as no extensions: config.get('extensions', {})
PrepareExtend_default_empty ==
    /\ call = "prepare_object"
    /\ pc = "extend"
    /\ filtered' = IF "extensions" \notin config.keys THEN filtered
                   ELSE add_extensions(filtered, config.extensions, 1)
    /\ steps' = Append(steps, "extend")
    /\ ret' = ret /\ pc' = "map"
    /\ UNCHANGED <<driverVars, pagingVars, arg_save_original, prev, call, df, config, chained>>

\* lines 85-86: for key in config['extensions']: filtered[key] = ...
PrepareExtend ==
    /\ call = "prepare_object"
    /\ pc = "extend"
    /\ IF "extensions" \notin config.keys
       THEN ret' = Raise("KeyError") /\ pc' = "done"
            /\ UNCHANGED <<filtered, steps>>
       ELSE /\ filtered' = add_extensions(filtered, config.extensions, 1)
            /\ steps' = Append(steps, "extend")
            /\ ret' = ret /\ pc' = "map"
    /\ UNCHANGED <<driverVars, pagingVars, arg_save_original, prev, call, df, config, chained>>

\* map_fields at work on the caller's own table: what line 87 would do had
\* the filter handed df on instead of a copy of it
PrepareMap_on_df ==
    /\ call = "prepare_object"
    /\ pc = "map"
    /\ LET r == map_fields(filtered, config.mapping, FALSE)
       IN  IF r.kind = "raise"
           THEN /\ filtered' = r.frame
                /\ ret' = Raise(r.exc) /\ pc' = "done"
                /\ UNCHANGED <<chained, steps>>
           ELSE /\ filtered' = r.frame
                /\ chained' = r.frame
                /\ steps' = Append(steps, "map")
                /\ ret' = ret /\ pc' = "applymap"
    /\ df' = filtered'
    /\ UNCHANGED <<driverVars, pagingVars, arg_save_original, prev, call, config>>

\* line 87: map_fields(filtered, config['mapping']) renames and deletes in
\* `filtered` itself and returns it
PrepareMap ==
    /\ call = "prepare_object"
    /\ pc = "map"
    /\ LET r == map_fields(filtered, config.mapping, FALSE)
       IN  IF r.kind = "raise"
           THEN /\ filtered' = r.frame
                /\ ret' = Raise(r.exc) /\ pc' = "done"
                /\ UNCHANGED <<chained, steps>>
           ELSE /\ filtered' = r.frame
                /\ chained' = r.frame
                /\ steps' = Append(steps, "map")
                /\ ret' = ret /\ pc' = "applymap"
    /\ UNCHANGED <<driverVars, pagingVars, arg_save_original, prev, call, df, config>>

\* the chain without its applymap(str): the cells stay as they are
PrepareApplymap_skipped ==
    /\ call = "prepare_object"
    /\ pc = "applymap"
    /\ steps' = Append(steps, "applymap")
    /\ pc' = "drop_duplicates"
    /\ UNCHANGED <<driverVars, pagingVars, arg_save_original, prev, call, df, config, filtered, chained, ret>>

\* line 87: .applymap(str)
PrepareApplymap ==
    /\ call = "prepare_object"
    /\ pc = "applymap"
    /\ chained' = applymap_str(chained)
    /\ steps' = Append(steps, "applymap")
    /\ pc' = "drop_duplicates"
    /\ UNCHANGED <<driverVars, pagingVars, arg_save_original, prev, call, df, config, filtered, ret>>

\* line 87: return ....drop_duplicates()
PrepareDropDuplicates ==
    /\ call = "prepare_object"
    /\ pc = "drop_duplicates"
    /\ chained' = drop_duplicates(chained)
    /\ steps' = Append(steps, "drop_duplicates")
    /\ ret' = RetFrame(chained')
    /\ pc' = "done"
    /\ UNCHANGED <<driverVars, pagingVars, arg_save_original, prev, call, df, config, filtered>>

NextPrepare ==
    \/ PrepareValidate
    \/ PrepareFilter
    \/ PrepareExtend
    \/ PrepareMap
    \/ PrepareApplymap
    \/ PrepareDropDuplicates

SpecPrepare == InitPrepare /\ [][NextPrepare]_vars

(***************************************************************************)
(* Two calls of prepare_object, one after the other, with the same table   *)
(* and config objects                                                      *)
(***************************************************************************)
\* the caller calls prepare_object(df, config) again: df and config are what
\* the first call left of them, the locals are new
PrepareAgain ==
    /\ call = "prepare_object"
    /\ pc = "done"
    /\ prev = NoRet
    /\ prev' = ret
    /\ ret' = NoRet
    /\ pc' = "start"
    /\ filtered' = EmptyFrame
    /\ chained' = EmptyFrame
    /\ steps' = <<>>
    /\ UNCHANGED <<driverVars, pagingVars, arg_save_original, call, df, config>>

NextPrepareTwice ==
    \/ PrepareValidate
    \/ PrepareFilter
    \/ PrepareExtend
    \/ PrepareMap
    \/ PrepareApplymap
    \/ PrepareDropDuplicates
    \/ PrepareAgain

SpecPrepareTwice == InitPrepare /\ [][NextPrepareTwice]_vars

(***************************************************************************)
(* The calls that take the caller's table: prepare_object(df, config) and  *)
(* df_filter(df, conditions)                                               *)
(***************************************************************************)
InitCalls == InitPrepare \/ InitFilter

NextCalls ==
    \/ PrepareValidate
    \/ PrepareFilter
    \/ PrepareExtend
    \/ PrepareMap
    \/ PrepareApplymap
    \/ PrepareDropDuplicates
    \/ DfFilter

SpecCalls == InitCalls /\ [][NextCalls]_vars

(***************************************************************************)
(* map_fields(df, mapping, save_original)                                  *)
(***************************************************************************)
\* the rows map_fields' tables are made of, on the columns a, b
MapFieldsRowPool == { <<IntV(1), StrV("x")>>, <<None, StrV("y")>> }

MapFieldsTables ==
    {[cols |-> <<col_a, col_b>>, rows |-> rs] :
        rs \in SeqsUpTo(MapFieldsRowPool, MaxRows)}

\* rename and fan-out targets: new names, the name of a column of the table,
\* the name of a column the table lacks
MapFieldsTargets ==
    { Name("A"), Name("b"), Name("zz"), Names(<<"A", "B">>), Names(<<"b">>),
      Names(<<>>) }

MapFieldsEntries ==
    {[key |-> c, target |-> t] : c \in {col_a, col_b, col_zz},
                                  t \in MapFieldsTargets}

\* a dict has each key once
MapFieldsMappings ==
    {MapDict(d) : d \in {m \in SeqsUpTo(MapFieldsEntries, MaxEntries) :
        \A i, j \in 1..Len(m) : i # j => m[i].key # m[j].key}}

\* a config that holds nothing but the mapping: map_fields' argument
OnlyMapping(m) ==
    [keys |-> {"mapping"}, conditions |-> CondInt, mapping |-> m,
     extensions |-> <<>>]

\* df is the table as the caller built it; `filtered` is the frame object
\* handed to map_fields (as line 87 does), which map_fields changes in place
InitMapFields ==
    /\ call = "map_fields"
    /\ df \in MapFieldsTables
    /\ config \in {OnlyMapping(m) : m \in MapFieldsMappings}
    /\ arg_save_original \in BOOLEAN
    /\ pc = "start"
    /\ filtered = df
    /\ chained = EmptyFrame
    /\ steps = <<>>
    /\ ret = NoRet
    /\ prev = NoRet
    /\ NoDriver
    /\ NoPaging

\* map_fields renames, assigns and deletes in the frame it was given and
\* returns that frame
MapFields ==
    /\ call = "map_fields"
    /\ pc = "start"
    /\ LET r == map_fields(filtered, config.mapping, arg_save_original)
       IN  /\ filtered' = r.frame
           /\ ret' = IF r.kind = "raise" THEN Raise(r.exc) ELSE RetFrame(r.frame)
    /\ pc' = "done"
    /\ UNCHANGED <<driverVars, pagingVars, arg_save_original, prev, call, df, config, chained, steps>>

SpecMapFields == InitMapFields /\ [][MapFields]_vars

(***************************************************************************)
(* connect and query of the four drivers, called in any order on two       *)
(* objects of one class                                                    *)
(***************************************************************************)
\* connect(connection_str, **kwargs) with the flag set ahead of the try block
Connect_flag_before_try(i, mode, supplied, fail) ==
    /\ ncalls < MaxCalls
    /\ ConnectInput(mode, supplied, fail)
    /\ LET args == get_connect_args(i, mode, supplied, fail)
           result == connect_result(i, mode, supplied, fail)
       IN  /\ connect_defaults' = merged(mode, supplied)
           /\ logger' = IF /\ args = "ok"
                           /\ fail \in {"api", "none"}
                           /\ driver \in LoggerSetByConnect
                        THEN [logger EXCEPT ![i] = "Logger"]
                        ELSE logger
           /\ service' = IF /\ args = "ok"
                            /\ \/ fail = "none"
                               \/ fail = "api" /\ driver = "PTNADDriver"
                         THEN [service EXCEPT ![i] = "Service"]
                         ELSE service
           /\ connected' = IF args = "ok"
                           THEN [connected EXCEPT ![i] = TRUE]
                           ELSE connected
           /\ succeeded' = IF result = "ok"
                           THEN [succeeded EXCEPT ![i] = TRUE]
                           ELSE succeeded
           /\ outcome' = Ended("connect", i, result, FALSE,
                               IF args = "ok" THEN merged(mode, supplied)
                               ELSE CONNECT_DEFAULTS)
    /\ ncalls' = ncalls + 1
    /\ UNCHANGED <<remapVars, pagingVars, driver, settings>>

\* connect(connection_str, **kwargs) on the object i.  _get_connect_args
\* leaves its updates in the class's _CONNECT_DEFAULTS whether it returns or
\* raises; the try block sets self.logger (events and incidents drivers) once
\* the authentication object is built and self.service in its last statement
\* (PTNADDriver: before check_status); self._connected is set after the try
\* block.
Connect(i, mode, supplied, fail) ==
    /\ ncalls < MaxCalls
    /\ ConnectInput(mode, supplied, fail)
    /\ LET args == get_connect_args(i, mode, supplied, fail)
           result == connect_result(i, mode, supplied, fail)
       IN  /\ connect_defaults' = merged(mode, supplied)
           /\ logger' = IF /\ args = "ok"
                           /\ fail \in {"api", "none"}
                           /\ driver \in LoggerSetByConnect
                        THEN [logger EXCEPT ![i] = "Logger"]
                        ELSE logger
           /\ service' = IF /\ args = "ok"
                            /\ \/ fail = "none"
                               \/ fail = "api" /\ driver = "PTNADDriver"
                         THEN [service EXCEPT ![i] = "Service"]
                         ELSE service
           /\ connected' = IF result = "ok"
                           THEN [connected EXCEPT ![i] = TRUE]
                           ELSE connected
           /\ succeeded' = IF result = "ok"
                           THEN [succeeded EXCEPT ![i] = TRUE]
                           ELSE succeeded
           /\ outcome' = Ended("connect", i, result, FALSE,
                               IF args = "ok" THEN merged(mode, supplied)
                               ELSE CONNECT_DEFAULTS)
    /\ ncalls' = ncalls + 1
    /\ UNCHANGED <<remapVars, pagingVars, driver, settings>>

\* query(query) on the object i: the not-connected error before anything
\* else, one request to the service otherwise
Query(i) ==
    /\ outcome' = IF connected[i]
                  THEN Ended("query", i, "ok", TRUE, CONNECT_DEFAULTS)
                  ELSE Ended("query", i, "MsticpyNotConnectedError", FALSE,
                             CONNECT_DEFAULTS)
    /\ UNCHANGED <<remapVars, pagingVars, driver, settings, connect_defaults,
                   connected, logger, service, succeeded, ncalls>>

NextDriver ==
    \/ \E i \in Instances, mode \in ConnectModes,
          supplied \in SUBSET REQD_ARGS, fail \in Failures :
          Connect(i, mode, supplied, fail)
    \/ \E i \in Instances : Query(i)

SpecDriver == InitDriver /\ [][NextDriver]_vars

(***************************************************************************)
(* MPSIEMEventsDriver.query_with_results(query, recursive=True, limit,     *)
(* offset) on a connected driver.  The service holds the matching events   *)
(* 1..stored and answers a request with those after the first `offset` of  *)
(* them, at most `limit`.                                                  *)
(***************************************************************************)
MaxStored == 3

MaxLimit == 3

MaxOffset == 2

\* the history of requests is kept up to this length
MaxRequests == MaxStored + 2

\* self.service.get_events_by_filter(limit=l, offset=o)
get_events_by_filter(l, o) ==
    LET left == IF stored > o THEN stored - o ELSE 0
        n == IF left < l THEN left ELSE l
    IN  [k \in 1..n |-> o + k]

\* a driver object d1 whose connect call has completed, all parameters taken
\* from the settings
InitPaging ==
    /\ NoRemap
    /\ driver = "MPSIEMEventsDriver"
    /\ settings = REQD_ARGS
    /\ connect_defaults = update(CONNECT_DEFAULTS, REQD_ARGS, FromSettings)
    /\ connected = [i \in Instances |-> i = "d1"]
    /\ logger = [i \in Instances |-> IF i = "d1" THEN "Logger" ELSE "None"]
    /\ service = [i \in Instances |-> IF i = "d1" THEN "Service" ELSE "None"]
    /\ succeeded = [i \in Instances |-> i = "d1"]
    /\ outcome = Ended("connect", "d1", "ok", FALSE,
                       update(CONNECT_DEFAULTS, REQD_ARGS, FromSettings))
    /\ ncalls = 1
    /\ stored \in 0..MaxStored
    /\ limit = 0
    /\ offset = 0
    /\ current_offset = 0
    /\ something_left = FALSE
    /\ events = <<>>
    /\ requests = <<>>

\* the call up to the loop: the arguments, the field names, events = [],
\* current_offset = offset, something_left = True
QueryStart(l, o) ==
    /\ outcome.op = "connect"
    /\ connected["d1"]
    /\ limit' = l
    /\ offset' = o
    /\ events' = <<>>
    /\ current_offset' = o
    /\ something_left' = TRUE
    /\ requests' = <<>>
    /\ outcome' = Ended("query_with_results", "d1", "running", TRUE,
                        CONNECT_DEFAULTS)
    /\ UNCHANGED <<remapVars, driver, settings, connect_defaults, connected,
                   logger, service, succeeded, ncalls, stored>>

\* one pass of the loop `while something_left`
QueryPage ==
    /\ outcome.result = "running"
    /\ something_left
    /\ LET reader == get_events_by_filter(limit, current_offset)
       IN  /\ something_left' = (Len(reader) = limit)
           /\ current_offset' = current_offset + limit
           /\ events' = events \o reader
           /\ requests' = IF Len(requests) < MaxRequests
                          THEN Append(requests, current_offset)
                          ELSE requests
    /\ UNCHANGED <<remapVars, driverVars, stored, limit, offset>>

\* the loop is left and the events are returned
QueryReturn ==
    /\ outcome.result = "running"
    /\ ~something_left
    /\ outcome' = Ended("query_with_results", "d1", "ok", TRUE,
                        CONNECT_DEFAULTS)
    /\ UNCHANGED <<remapVars, pagingVars, driver, settings, connect_defaults,
                   connected, logger, service, succeeded, ncalls>>

NextPaging ==
    \/ \E l \in 0..MaxLimit, o \in 0..MaxOffset : QueryStart(l, o)
    \/ QueryPage
    \/ QueryReturn

SpecPaging == InitPaging /\ [][NextPaging]_vars

\* the interpreter runs the call to its end whenever it has a next step
FairSpecPaging == SpecPaging /\ WF_vars(NextPaging)

(***************************************************************************)
(* Properties of prepare_object (under SpecPrepare)                        *)
(***************************************************************************)
PrepareDone == call = "prepare_object" /\ pc = "done"

\* how many times the row occurs
Count(r, rows) == Cardinality({i \in 1..Len(rows) : rows[i] = r})

\* valid_config accepts the config and df_filter finds at least one row
AcceptedAndMatched ==
    /\ valid_config(config) = RetBool(TRUE)
    /\ df_filter(df, config.conditions).kind = "frame"
    /\ ~IsEmpty(df_filter(df, config.conditions).frame)

\* filter, extend, map (original not preserved), stringify, drop duplicates,
\* in this order; a step that raises ends the pipeline with its exception
Pipeline ==
    LET matched == df_filter(df, config.conditions).frame
    IN  IF "extensions" \notin config.keys THEN Raise("KeyError")
        ELSE LET mapped == map_fields(
                               add_extensions(matched, config.extensions, 1),
                               config.mapping, FALSE)
             IN  IF mapped.kind = "raise" THEN Raise(mapped.exc)
                 ELSE RetFrame(drop_duplicates(applymap_str(mapped.frame)))

\* the string forms of a row's cells
StrRow(row) == [c \in 1..Len(row) |-> StrV(PyStr(row[c]))]

\* C1: for a config valid_config accepts and a table with a matching row,
\* prepare_object returns what these steps give in this order: filter by the
\* conditions, add the extension columns, map_fields without the originals,
\* every cell to its string form, drop duplicate rows.  Rows are compared
\* after stringification: every mapped row is in the result once, as text.
C1_PipelineOrder ==
    (PrepareDone /\ AcceptedAndMatched)
    => /\ ret = Pipeline
       /\ ret.kind = "frame" =>
            /\ steps = <<"filter", "extend", "map", "applymap", "drop_duplicates">>
            /\ \A i \in 1..Len(filtered.rows) :
                  Count(StrRow(filtered.rows[i]), ret.frame.rows) = 1
            /\ \A k \in 1..Len(ret.frame.rows) :
                  \E i \in 1..Len(filtered.rows) :
                      ret.frame.rows[k] = StrRow(filtered.rows[i])
       /\ (df = ExampleFrame /\ config = ExampleConfig) =>
            ret = RetFrame(
                    [cols |-> <<StrV("ID"), StrV("Status"), StrV("source")>>,
                     rows |-> << <<StrV("1"), StrV("active"), StrV("x")>> >>])

\* the rows (1, x) and ("1", x) both passed the filter and came out as one
C1_Witness ==
    /\ PrepareDone /\ AcceptedAndMatched
    /\ df.rows = << <<IntV(1), StrV("x")>>, <<StrV("1"), StrV("x")>> >>
    /\ config.conditions = CondStr("*")
    /\ config.mapping = MapDict(<<Entry("a", Name("A"))>>)
    /\ config.extensions = <<Extension("src", IntV(1)), Extension("a2", None)>>
    /\ ret = RetFrame(
              [cols |-> <<StrV("A"), StrV("b"), StrV("src"), StrV("a2")>>,
               rows |-> << <<StrV("1"), StrV("x"), StrV("1"), StrV("None")>> >>])

\* C2: for a config for which valid_config is False, prepare_object returns
\* an empty table and raises nothing, and performs no filtering, extension or
\* mapping step.
C2_InvalidConfigGivesEmpty ==
    (call = "prepare_object" /\ valid_config(config) = RetBool(FALSE))
    => /\ pc \in {"start", "done"}
       /\ steps = <<>>
       /\ filtered = EmptyFrame
       /\ pc = "done" => ret = RetFrame(EmptyFrame)

\* a table with rows and the wildcard condition, the mapping key missing
C2_Witness ==
    /\ PrepareDone
    /\ "mapping" \notin config.keys
    /\ config.conditions = CondStr("*")
    /\ Len(df.rows) = 2
    /\ ret = RetFrame(EmptyFrame)

(***************************************************************************)
(* Properties of valid_config (under SpecValidConfig)                      *)
(***************************************************************************)
ValidConfigDone == call = "valid_config" /\ pc = "done"

\* a mapping value that is a string or a list of strings
StrOrListOfStr(t) ==
    \/ ObjType(t) = "str"
    \/ ObjType(t) = "list" /\ \A i \in 1..Len(t.l) : TypeOf(t.l[i]) = "str"

\* C3: valid_config returns False when the conditions key or the mapping key
\* is absent and when some mapping value is not a string or a list of strings
\* (a list holding a non-string element included), and True otherwise.
\* Stated for the configs whose mapping, when present, is a key/value mapping.
C3_ValidConfigDecides ==
    (/\ ValidConfigDone
     /\ "mapping" \in config.keys => config.mapping.k = "dict")
    => ret = RetBool(
          /\ "conditions" \in config.keys
          /\ "mapping" \in config.keys
          /\ \A i \in 1..Len(config.mapping.d) :
                StrOrListOfStr(config.mapping.d[i].target))

\* C4: valid_config never raises: whatever the config holds under mapping
\* (None, a scalar, a list), the call returns True or False.
C4_ValidConfigNeverRaises == ValidConfigDone => ret.kind = "bool"

(***************************************************************************)
(* Properties of the Condition evaluator (under SpecFilter)                *)
(***************************************************************************)
FilterDone == call = "df_filter" /\ pc = "done"

\* df_filter was called with one Condition; Cond is that Condition
OneCondition == FilterDone /\ config.conditions.k = "dict"

Cond == config.conditions.d

\* one Condition of a single column/spec item whose column the table has
OneItem == OneCondition /\ Len(Cond) = 1 /\ HasColumn(df, Cond[1][1])

\* the same rows the same number of times, in any order
SameBag(rows1, rows2) ==
    /\ Len(rows1) = Len(rows2)
    /\ \A i \in 1..Len(rows1) : Count(rows1[i], rows1) = Count(rows1[i], rows2)

\* C5: a Condition naming a column the table lacks yields the empty table and
\* no error, whatever its other items are and wherever the absent column
\* stands in the key order.  Stated for the other items whose spec is a
\* string, a number, None or a list of these.
C5_AbsentColumnGivesEmpty ==
    (/\ OneCondition
     /\ \E i \in 1..Len(Cond) : ~HasColumn(df, Cond[i][1])
     /\ \A i \in 1..Len(Cond) :
            ObjType(Cond[i][2]) \in {"str", "int", "float", "NoneType", "list"})
    => (ret.kind = "frame" /\ IsEmpty(ret.frame))

NotNullRows(c) == SelectSeq(df.rows, LAMBDA r : r[Loc(df, c)] \notin {None, NaN})

NullRows(c) == SelectSeq(df.rows, LAMBDA r : r[Loc(df, c)] \in {None, NaN})

\* C6: on a column c of the table, the spec "not null" keeps exactly the rows
\* whose c is not None/NaN and the spec None exactly the rows whose c is
\* None/NaN, each in the table's order; the two results partition the rows.
C6_NullSpecsPartition ==
    OneItem =>
        LET c == Cond[1][1]
            sp == Cond[1][2]
            notnull == df_filter(df, CondDict(<<<<c, Scalar(StrV("not null"))>>>>))
            null == df_filter(df, CondDict(<<<<c, Scalar(None)>>>>))
        IN  /\ sp = Scalar(StrV("not null")) =>
                ret = RetFrame([cols |-> df.cols, rows |-> NotNullRows(c)])
            /\ sp = Scalar(None) =>
                ret = RetFrame([cols |-> df.cols, rows |-> NullRows(c)])
            /\ sp \in {Scalar(StrV("not null")), Scalar(None)} =>
                /\ ret \in {notnull, null}
                /\ notnull.kind = "frame" /\ null.kind = "frame"
                /\ Len(notnull.frame.rows) + Len(null.frame.rows) = Len(df.rows)
                /\ \A i \in 1..Len(df.rows) :
                      Count(df.rows[i], notnull.frame.rows)
                      + Count(df.rows[i], null.frame.rows)
                      = Count(df.rows[i], df.rows)

\* a table with a NaN row and a number row was filtered by "not null"
C6_Witness ==
    /\ OneItem
    /\ Cond[1] = <<col_a, Scalar(StrV("not null"))>>
    /\ df.rows = << <<NaN, StrV("y")>>, <<IntV(1), StrV("x")>> >>
    /\ ret.frame.rows = << <<IntV(1), StrV("x")>> >>

\* equality with no coercion between text, number and boolean
StrictEq(cell, v) ==
    /\ ~isna(cell)
    /\ \/ cell = v
       \/ cell.t \in {"int", "float"} /\ v.t \in {"int", "float"}
          /\ Halves(cell) = Halves(v)

\* C7: a scalar spec other than "not null" and None keeps exactly the rows
\* whose cell equals the scalar with no type coercion (text "1" or a boolean
\* never match the number 1), and every string or number is accepted.
C7_ScalarEqualityNoCoercion ==
    (/\ OneItem
     /\ Cond[1][2].k = "scalar"
     /\ Cond[1][2].v \notin {StrV("not null"), None}
     /\ TypeOf(Cond[1][2].v) \in {"str", "int", "float"})
    => ret = RetFrame(
          [cols |-> df.cols,
           rows |-> SelectSeq(df.rows,
                       LAMBDA r : StrictEq(r[Loc(df, Cond[1][1])], Cond[1][2].v))])

\* C8: a list spec keeps exactly the rows whose cell equals some entry of the
\* list, each such row once, also when the list repeats a value.
C8_ListMembershipOnce ==
    (OneItem /\ Cond[1][2].k = "list")
    => /\ ret.kind = "frame"
       /\ SameBag(ret.frame.rows,
                  SelectSeq(df.rows,
                      LAMBDA r : \E j \in 1..Len(Cond[1][2].l) :
                          PyEq(r[Loc(df, Cond[1][1])], Cond[1][2].l[j])))

\* C9: a spec that is neither a scalar, nor None, nor a list of scalars makes
\* the filter raise its format error, which reaches df_filter's caller.
C9_UnsupportedSpecRaises ==
    (OneCondition /\ \E i \in 1..Len(Cond) : Cond[i][2].k = "dict")
    => ret = Raise("Exception")

\* a row meets one column/spec item
Satisfies(row, item) ==
    LET cell == row[Loc(df, item[1])]
    IN  IF item[2] = Scalar(StrV("not null")) THEN cell \notin {None, NaN}
        ELSE IF item[2] = Scalar(None) THEN cell \in {None, NaN}
        ELSE IF item[2].k = "scalar" THEN PyEq(cell, item[2].v)
        ELSE \E j \in 1..Len(item[2].l) : PyEq(cell, item[2].l[j])

Reverse(sq) == [i \in 1..Len(sq) |-> sq[Len(sq) + 1 - i]]

\* C10: for a Condition of several items whose columns the table has, the
\* result holds exactly the rows that meet every item, and it is the same for
\* the items taken in the opposite order.  Stated for the specs whose type
\* __df_filter accepts (str, int, None, list).
C10_ConjunctionAnyOrder ==
    (/\ OneCondition
     /\ Len(Cond) >= 2
     /\ \A i \in 1..Len(Cond) :
            /\ HasColumn(df, Cond[i][1])
            /\ ObjType(Cond[i][2]) \in {"str", "int", "NoneType", "list"})
    => LET opposite == df_filter(df, CondDict(Reverse(Cond)))
       IN  /\ ret.kind = "frame"
           /\ SameBag(ret.frame.rows,
                      SelectSeq(df.rows,
                          LAMBDA r : \A i \in 1..Len(Cond) : Satisfies(r, Cond[i])))
           /\ opposite.kind = "frame"
           /\ opposite.frame.rows = ret.frame.rows

(***************************************************************************)
(* Properties of the row filter (under SpecFilter)                         *)
(***************************************************************************)
\* C11: with the wildcard "*" df_filter returns a table equal to the input:
\* the same rows in the same order on the same columns, the input's duplicate
\* rows included.
C11_WildcardIdentity ==
    (FilterDone /\ config.conditions = CondStr("*")) => ret = RetFrame(df)

\* a table holding the same row twice went through the wildcard
C11_Witness ==
    /\ FilterDone
    /\ config.conditions = CondStr("*")
    /\ df.rows = << <<IntV(1), StrV("x")>>, <<IntV(1), StrV("x")>> >>
    /\ ret.kind = "frame"
    /\ ret.frame.rows = << <<IntV(1), StrV("x")>>, <<IntV(1), StrV("x")>> >>

\* a row of the table meets every item of the clause
Matches(row, clause) ==
    \A i \in 1..Len(clause) :
        HasColumn(df, clause[i][1]) /\ Satisfies(row, clause[i])

\* C12: for a list of Conditions whose specs are of the supported kinds,
\* df_filter returns the union of the clauses' matches against the original
\* table: every row of the table that meets some clause, once, however many
\* clauses it meets.
C12_ClausesUnionOnce ==
    (/\ FilterDone
     /\ config.conditions.k = "list"
     /\ \A k \in 1..Len(config.conditions.l) :
            \A i \in 1..Len(config.conditions.l[k]) :
                ObjType(config.conditions.l[k][i][2])
                    \in {"str", "int", "NoneType", "list"})
    => /\ ret.kind = "frame"
       /\ SameBag(ret.frame.rows,
                  SelectSeq(df.rows,
                      LAMBDA r : \E k \in 1..Len(config.conditions.l) :
                          Matches(r, config.conditions.l[k])))

(***************************************************************************)
(* Properties of map_fields (under SpecMapFields)                          *)
(***************************************************************************)
MapFieldsDone == call = "map_fields" /\ pc = "done"

\* the mapping's items in insertion order
Mapping == config.mapping.d

\* the destination names of a mapping item
Destinations(e) ==
    IF ObjType(e.target) = "list"
    THEN {e.target.l[j] : j \in 1..Len(e.target.l)}
    ELSE {e.target.v}

\* the i-th item shares no name with another item: its source is no other
\* item's destination, its destinations are no other item's source or
\* destination, and it does not map its source onto itself
Apart(i) ==
    /\ Mapping[i].key \notin Destinations(Mapping[i])
    /\ \A j \in 1..Len(Mapping) : j # i =>
          /\ Mapping[j].key \notin Destinations(Mapping[i])
          /\ Mapping[i].key \notin Destinations(Mapping[j])
          /\ Destinations(Mapping[i]) \cap Destinations(Mapping[j]) = {}

\* every column with this label holds these cells, row by row
Holds(f, label, cells) ==
    \A c \in Locs(f, label) : [r \in 1..Len(f.rows) |-> f.rows[r][c]] = cells

\* C13: for a string-valued item src -> dst whose source is a column of the
\* table, map_fields returns a table whose column dst (one column) holds,
\* row by row, what src held; src is gone when save_original is false and is
\* there with its values when it is true.  Stated for an item that shares no
\* name with another item of the mapping.
C13_RenameOrCopy ==
    MapFieldsDone =>
        \A i \in 1..Len(Mapping) :
            (/\ ObjType(Mapping[i].target) = "str"
             /\ HasColumn(df, Mapping[i].key)
             /\ Apart(i))
            => LET src == Mapping[i].key
                   dst == Mapping[i].target.v
               IN  /\ ret.kind = "frame"
                   /\ Cardinality(Locs(ret.frame, dst)) = 1
                   /\ Holds(ret.frame, dst, Column(df, src))
                   /\ HasColumn(ret.frame, src) <=> arg_save_original
                   /\ Holds(ret.frame, src, Column(df, src))

\* C14: for a list-valued item src -> [d1..dn] whose source is a column of
\* the table, map_fields returns a table in which every column d1..dn exists
\* and holds what src held, and src is removed exactly when save_original is
\* false.  Stated for an item that shares no name with another item.
C14_FanOut ==
    MapFieldsDone =>
        \A i \in 1..Len(Mapping) :
            (/\ ObjType(Mapping[i].target) = "list"
             /\ HasColumn(df, Mapping[i].key)
             /\ Apart(i))
            => LET src == Mapping[i].key
               IN  /\ ret.kind = "frame"
                   /\ \A d \in Destinations(Mapping[i]) :
                         /\ HasColumn(ret.frame, d)
                         /\ Holds(ret.frame, d, Column(df, src))
                   /\ HasColumn(ret.frame, src) <=> arg_save_original
                   /\ Holds(ret.frame, src, Column(df, src))

\* the mapping without the items whose source is no column of the table
PresentOnly == SelectSeq(Mapping, LAMBDA e : HasColumn(df, e.key))

\* C15: an item whose source is no column of the table is skipped silently:
\* map_fields raises nothing and returns what it returns for the mapping
\* without that item, for string-valued and list-valued items and for both
\* values of save_original.  Stated for absent sources that are no other
\* item's destination.
C15_AbsentSourceSkipped ==
    (/\ MapFieldsDone
     /\ PresentOnly # Mapping
     /\ \A i, j \in 1..Len(Mapping) :
            ~HasColumn(df, Mapping[i].key)
                => Mapping[i].key \notin Destinations(Mapping[j]))
    => LET without == map_fields(df, MapDict(PresentOnly), arg_save_original)
       IN  /\ ret.kind = "frame"
           /\ without.kind = "frame"
           /\ ret.frame = without.frame

(***************************************************************************)
(* Properties of prepare_object's steps (under SpecPrepare)                *)
(***************************************************************************)
AllSteps == <<"filter", "extend", "map", "applymap", "drop_duplicates">>

\* the names config.extensions gives
ExtensionNames == {config.extensions[i].key : i \in 1..Len(config.extensions)}

\* every row of the frame holds this cell in some column of this label
Uniform(f, label, cell) ==
    \E c \in Locs(f, label) : \A r \in 1..Len(f.rows) : f.rows[r][c] = cell

\* C16: once the extension loop has run, the rows that passed the filter are
\* all there and each has, for every key/value of config.extensions, one
\* column of that name holding the literal value (a column of the table with
\* that name is overwritten), the other columns as the filter left them.  The
\* columns are added before the mapping: in the returned table a mapping item
\* whose source is an extension name has renamed or fanned out the extension
\* column, which holds the literal's text in every row.
C16_ExtensionsBeforeMapping ==
    /\ (call = "prepare_object" /\ pc = "map") =>
          LET matched == df_filter(df, config.conditions).frame
          IN  /\ Len(filtered.rows) = Len(matched.rows)
              /\ \A i \in 1..Len(config.extensions) :
                    /\ Cardinality(Locs(filtered, config.extensions[i].key)) = 1
                    /\ Holds(filtered, config.extensions[i].key,
                             [r \in 1..Len(matched.rows) |->
                                 config.extensions[i].value])
              /\ \A c \in 1..Len(matched.cols) :
                    matched.cols[c] \notin ExtensionNames =>
                        Holds(filtered, matched.cols[c],
                              Column(matched, matched.cols[c]))
    /\ (PrepareDone /\ steps = AllSteps) =>
          \A i \in 1..Len(Mapping) : \A x \in 1..Len(config.extensions) :
              (Mapping[i].key = config.extensions[x].key /\ Apart(i)) =>
                  /\ ~HasColumn(ret.frame, Mapping[i].key)
                  /\ \A d \in Destinations(Mapping[i]) :
                        Uniform(ret.frame, d,
                                StrV(PyStr(config.extensions[x].value)))

\* the extension a = "x" replaced the column a of both rows and was fanned
\* out to A and B
C16_Witness ==
    /\ PrepareDone
    /\ config.conditions = CondStr("*")
    /\ config.extensions = <<Extension("a", StrV("x"))>>
    /\ config.mapping = MapDict(<<Entry("a", Names(<<"A", "B">>))>>)
    /\ df.rows = << <<IntV(1), StrV("x")>>, <<None, StrV("y")>> >>
    /\ ret = RetFrame(
              [cols |-> <<StrV("b"), StrV("A"), StrV("B")>>,
               rows |-> << <<StrV("x"), StrV("x"), StrV("x")>>,
                           <<StrV("y"), StrV("x"), StrV("x")>> >>])

\* C17: every cell of every table prepare_object returns is a string, the
\* numbers and the null values of the input included.
C17_CellsAreStrings ==
    (PrepareDone /\ ret.kind = "frame") =>
        \A r \in 1..Len(ret.frame.rows) : \A c \in 1..Len(ret.frame.rows[r]) :
            TypeOf(ret.frame.rows[r][c]) = "str"

\* a None cell, a text cell and the literals 1 and None came out as text
C17_Witness ==
    /\ PrepareDone
    /\ df.rows = << <<None, StrV("y")>> >>
    /\ config.extensions = <<Extension("src", IntV(1)), Extension("a2", None)>>
    /\ ret.kind = "frame"
    /\ ret.frame.rows =
          << <<StrV("None"), StrV("y"), StrV("1"), StrV("None")>> >>

\* the position of the first row equal to this one
FirstAt(row, rows) ==
    CHOOSE i \in 1..Len(rows) :
        rows[i] = row /\ \A j \in 1..(i - 1) : rows[j] # row

\* C18: the table prepare_object returns holds no two equal rows; of the
\* filtered and mapped rows (as text) every one is in it, and the returned
\* rows stand in the order of their first occurrences among them.
C18_NoDuplicateRows ==
    (PrepareDone /\ ret.kind = "frame") =>
        LET out == ret.frame.rows
            mapped == [i \in 1..Len(filtered.rows) |-> StrRow(filtered.rows[i])]
        IN  /\ \A k, l \in 1..Len(out) : k # l => out[k] # out[l]
            /\ steps = AllSteps =>
                  /\ \A i \in 1..Len(mapped) :
                        \E k \in 1..Len(out) : out[k] = mapped[i]
                  /\ \A k \in 1..Len(out) :
                        \E i \in 1..Len(mapped) : out[k] = mapped[i]
                  /\ \A k, l \in 1..Len(out) :
                        k < l => FirstAt(out[k], mapped) < FirstAt(out[l], mapped)

\* the row (1, x) met both clauses and came after (1, y) a second time
C18_Witness ==
    /\ PrepareDone
    /\ steps = AllSteps
    /\ df.rows = << <<IntV(1), StrV("x")>>, <<IntV(1), StrV("y")>> >>
    /\ filtered.rows = << <<IntV(1), StrV("x")>>, <<IntV(1), StrV("y")>>,
                          <<IntV(1), StrV("x")>> >>
    /\ ret.kind = "frame"
    /\ ret.frame.rows = << <<StrV("1"), StrV("x")>>, <<StrV("1"), StrV("y")>> >>

\* the destinations of the mapping items whose source is a column of the
\* table or an extension
DestinationColumns ==
    UNION {Destinations(Mapping[i]) :
              i \in {j \in 1..Len(Mapping) :
                        \/ HasColumn(df, Mapping[j].key)
                        \/ Mapping[j].key \in ExtensionNames}}

\* C19: for a config valid_config accepts and a table with a matching row,
\* the columns of the returned table are exactly the mapping's destinations
\* and the extension columns (those the mapping does not take as a source):
\* a column of the input that is neither a mapping source nor an extension
\* is not in the output.  Stated for mappings whose items share no name.
C19_SchemaIsDestinationsAndExtensions ==
    (/\ PrepareDone /\ AcceptedAndMatched /\ ret.kind = "frame"
     /\ config.mapping.k = "dict"
     /\ \A i \in 1..Len(Mapping) : Apart(i))
    => {ret.frame.cols[c] : c \in 1..Len(ret.frame.cols)}
       = DestinationColumns
         \cup {n \in ExtensionNames :
                  \A i \in 1..Len(Mapping) : Mapping[i].key # n}

(***************************************************************************)
(* Properties of repeated calls (under SpecPrepareTwice)                   *)
(***************************************************************************)
\* C20: a second call of prepare_object with the same table and config
\* returns (or raises) what the first call did: the same columns in the same
\* order, the same rows in the same order.  Nothing the first call left
\* behind changes the second call's result.
C20_Deterministic ==
    (PrepareDone /\ prev # NoRet) => ret = prev

\* both calls added the extension src and renamed it to S
C20_Witness ==
    /\ PrepareDone
    /\ prev # NoRet
    /\ config.conditions = CondStr("*")
    /\ config.extensions = <<Extension("src", StrV("x"))>>
    /\ config.mapping = MapDict(<<Entry("src", Name("S"))>>)
    /\ Len(df.rows) = 2
    /\ ret.kind = "frame"
    /\ ret.frame.cols = <<col_a, col_b, StrV("S")>>
    /\ Len(ret.frame.rows) = 2
    /\ prev = ret

(***************************************************************************)
(* The caller's table (under SpecCalls)                                    *)
(***************************************************************************)
\* C21: no step of prepare_object or df_filter changes the caller's table:
\* its rows, its columns and their names stay as they were, also with the
\* wildcard condition, where the whole table goes through the extension loop
\* and the in-place rename and delete of map_fields.
C21_InputUnchanged == [][df' = df]_vars

\* the wildcard let the row through, the extension overwrote a, the mapping
\* renamed it, and the caller's table is as it was
C21_Witness ==
    /\ PrepareDone
    /\ config.conditions = CondStr("*")
    /\ config.extensions = <<Extension("a", StrV("x"))>>
    /\ config.mapping = MapDict(<<Entry("a", Name("A"))>>)
    /\ df = [cols |-> <<col_a, col_b>>, rows |-> << <<IntV(1), StrV("x")>> >>]
    /\ filtered = [cols |-> <<StrV("A"), col_b>>,
                   rows |-> << <<StrV("x"), StrV("x")>> >>]
    /\ ret.kind = "frame"

(***************************************************************************)
(* Colliding and chained mapping items (under SpecMapFields)               *)
(***************************************************************************)
\* C22: when two string-valued items map different columns of the table to
\* the same destination and save_original is false, the result has one column
\* of that name and it holds what the source of the later item held.  Stated
\* for a destination that is no column of the table.
C22_LastWriteWins ==
    (MapFieldsDone /\ ~arg_save_original) =>
        \A i, j \in 1..Len(Mapping) :
            (/\ i < j
             /\ ObjType(Mapping[i].target) = "str"
             /\ ObjType(Mapping[j].target) = "str"
             /\ Mapping[i].target = Mapping[j].target
             /\ ~HasColumn(df, Mapping[i].target.v)
             /\ HasColumn(df, Mapping[i].key)
             /\ HasColumn(df, Mapping[j].key))
            => /\ ret.kind = "frame"
               /\ Cardinality(Locs(ret.frame, Mapping[j].target.v)) = 1
               /\ Holds(ret.frame, Mapping[j].target.v,
                        Column(df, Mapping[j].key))

\* the mapping with its string-valued items first, then its list-valued ones
StringsFirst ==
    MapDict(simple_mapping(Mapping) \o multivalue_mapping(Mapping))

\* the rename or copy i and the fan-out j of its destination share no name
\* with the table's columns or with a third item
ChainApart(i, j) ==
    /\ \A d \in Destinations(Mapping[j]) :
          ~HasColumn(df, d) /\ d # Mapping[j].key
    /\ \A k \in 1..Len(Mapping) : (k # i /\ k # j) =>
          /\ Mapping[k].key \notin Destinations(Mapping[j])
          /\ Destinations(Mapping[k])
                \cap (Destinations(Mapping[j])
                        \cup {Mapping[i].key, Mapping[j].key}) = {}

\* C25: map_fields applies the string-valued items before the list-valued
\* ones wherever they stand: the call ends as it does for the mapping with
\* the string-valued items moved to the front; a fan-out keyed by the
\* destination of a rename or copy reads the column that item made, and after
\* a rename the data is found under the destination name only.
C25_RenamesBeforeFanOuts ==
    MapFieldsDone =>
        /\ LET r == map_fields(df, StringsFirst, arg_save_original)
           IN  ret = IF r.kind = "raise" THEN Raise(r.exc) ELSE RetFrame(r.frame)
        /\ \A i, j \in 1..Len(Mapping) :
              (/\ ret.kind = "frame"
               /\ ObjType(Mapping[i].target) = "str"
               /\ ObjType(Mapping[j].target) = "list"
               /\ Mapping[j].key = Mapping[i].target.v
               /\ HasColumn(df, Mapping[i].key)
               /\ ~HasColumn(df, Mapping[j].key)
               /\ ChainApart(i, j))
              => /\ \A d \in Destinations(Mapping[j]) :
                       /\ HasColumn(ret.frame, d)
                       /\ Holds(ret.frame, d, Column(df, Mapping[i].key))
                 /\ HasColumn(ret.frame, Mapping[i].key) <=> arg_save_original
                 /\ HasColumn(ret.frame, Mapping[j].key) <=> arg_save_original

\* the fan-out of zz stands before the rename of a to zz and got a's values
C25_Witness ==
    /\ MapFieldsDone
    /\ ~arg_save_original
    /\ Mapping = << [key |-> col_zz, target |-> Names(<<"A", "B">>)],
                    [key |-> col_a, target |-> Name("zz")] >>
    /\ df.rows = << <<IntV(1), StrV("x")>> >>
    /\ ret = RetFrame([cols |-> <<col_b, StrV("A"), StrV("B")>>,
                       rows |-> << <<StrV("x"), IntV(1), IntV(1)>> >>])

(***************************************************************************)
(* The early return and the extensions key (under SpecPrepare)             *)
(***************************************************************************)
\* valid_config accepts the config and the filter returns
Accepted ==
    /\ valid_config(config) = RetBool(TRUE)
    /\ df_filter(df, config.conditions).kind = "frame"

\* C23: when the filter result is empty, prepare_object returns that result
\* at once: the filter is the only step taken, the frame has no extension
\* column and no renamed, fanned-out or removed column, and neither a missing
\* extensions key nor a mapping map_fields cannot read makes the call fail.
C23_EmptyFilterShortCircuit ==
    (call = "prepare_object" /\ Accepted
        /\ IsEmpty(df_filter(df, config.conditions).frame))
    => /\ pc \in {"start", "filter", "done"}
       /\ PrepareDone =>
            /\ ret = RetFrame(df_filter(df, config.conditions).frame)
            /\ steps = <<"filter">>
            /\ filtered = ret.frame

\* no row has b = "x"; the config has no extensions key
C23_Witness ==
    /\ PrepareDone
    /\ Accepted
    /\ "extensions" \notin config.keys
    /\ config.mapping = MapDict(<<Entry("a", Name("A"))>>)
    /\ config.conditions = CondDict(<<<<col_b, Scalar(StrV("x"))>>>>)
    /\ df.rows = << <<None, StrV("y")>> >>
    /\ ret = RetFrame([cols |-> <<col_a, col_b>>, rows |-> <<>>])

\* C24: for a config valid_config accepts that has no extensions key,
\* prepare_object returns the empty filter result when no row matches and
\* raises the missing-key error when a row matches; the extensions are not
\* taken as empty.
C24_MissingExtensionsKey ==
    (PrepareDone /\ Accepted /\ "extensions" \notin config.keys)
    => ret = IF IsEmpty(df_filter(df, config.conditions).frame)
             THEN RetFrame(df_filter(df, config.conditions).frame)
             ELSE Raise("KeyError")

\* one row matched and the call raised KeyError
C24_Witness ==
    /\ PrepareDone
    /\ Accepted
    /\ "extensions" \notin config.keys
    /\ config.conditions = CondDict(<<<<col_a, Scalar(IntV(1))>>>>)
    /\ config.mapping = MapDict(<<Entry("a", Name("A"))>>)
    /\ df.rows = << <<IntV(1), StrV("x")>>, <<None, StrV("y")>> >>
    /\ filtered.rows = << <<IntV(1), StrV("x")>> >>
    /\ ret = Raise("KeyError")

(***************************************************************************)
(* Properties of the drivers (under SpecDriver)                            *)
(***************************************************************************)
\* C26: in each of the four drivers, over any sequence of connect and query
\* calls, query raises the not-connected error and makes no request to the
\* service unless an earlier connect call on the same object completed
\* without error; the connected flag of an object is true exactly when one
\* of its connect calls has completed without error, so a failing connect
\* neither sets it nor clears it.
C26_QueryNeedsConnect ==
    /\ \A i \in Instances : connected[i] = succeeded[i]
    /\ (outcome.op = "query" /\ ~succeeded[outcome.inst])
       => (outcome.result = "MsticpyNotConnectedError" /\ ~outcome.called)

\* query on an object whose connect calls all failed, refused while the other
\* object of the class is connected
C26_Witness ==
    /\ outcome.op = "query"
    /\ outcome.result = "MsticpyNotConnectedError"
    /\ ncalls = MaxCalls
    /\ ~succeeded[outcome.inst]
    /\ service[outcome.inst] = "Service"
    /\ \E j \in Instances : succeeded[j] /\ connected[j]

\* C28: _CONNECT_DEFAULTS is as the class statement left it after every
\* _get_connect_args, and the host, username and password a connect call
\* builds its credentials from come from the settings or from that call's own
\* connection string or keyword arguments, never from an earlier call; a call
\* given no value for one of them gets no parameters back (it fails as
\* missing).
C28_DefaultsUnchanged ==
    /\ connect_defaults = CONNECT_DEFAULTS
    /\ outcome.op = "connect" =>
          \A p \in REQD_ARGS :
              outcome.used[p] \in {Absent, FromSettings, FromCall(ncalls)}

\* C29: a connect call on MPSIEMEventsDriver or MPSIEMIncidentsDriver that
\* fails raises MsticpyUserConfigError or MsticpyConnectionError and nothing
\* else, on a fresh object too.  (The error check_kwargs itself raises for a
\* keyword it rejects is left aside.)
C29_ConnectErrors ==
    (driver \in LoggerSetByConnect /\ outcome.op = "connect")
    => outcome.result \in {"ok", "MsticpyUserConfigError",
                           "MsticpyConnectionError", "NameError"}

(***************************************************************************)
(* Properties of the paging loop (under SpecPaging and FairSpecPaging)     *)
(***************************************************************************)
Running == outcome.op = "query_with_results" /\ outcome.result = "running"

Returned == outcome.op = "query_with_results" /\ outcome.result = "ok"

\* the offsets requested so far are offset, offset+limit, ... in that order,
\* and the events collected are those of these pages, in order, none skipped
\* or repeated
PagesInOrder ==
    /\ \A k \in 1..Len(requests) : requests[k] = offset + (k - 1) * limit
    /\ \A k \in 1..Len(events) : events[k] = offset + k

\* the call returned after the first page shorter than limit, with every
\* event the service holds after the first `offset`
StoppedAtShortPage ==
    /\ Len(requests) >= 1
    /\ Len(events) = IF stored > offset THEN stored - offset ELSE 0
    /\ \A k \in 1..Len(requests) :
          (k < Len(requests)) <=>
              (Len(get_events_by_filter(limit, requests[k])) = limit)

\* C27: query_with_results with recursive=True returns for every limit >= 0
\* against a service that holds finitely many events; it requests the offsets
\* offset, offset+limit, ... in order, stops after the first page whose
\* length differs from limit and returns the pages' events in request order,
\* none skipped or repeated.
C27_PagingTerminates ==
    /\ [](Running => PagesInOrder)
    /\ [](Returned => (PagesInOrder /\ StoppedAtShortPage))
    /\ (Running ~> Returned)

=============================================================================
